---- MODULE Spec2Model ----
(***************************************************************************)
(* Model of CoGaDB::DictionaryCompressedColumn<T>                          *)
(* (src/compression/dictionary_compressed_column.hpp), instantiated with   *)
(* T = std::string.  A value is the sequence of its characters.            *)
(*                                                                         *)
(* _values is a std::map<T, size_t>: a function from the present keys to   *)
(* their counts.  _position is a vector of map iterators.  An iterator is  *)
(* modelled by the map node it designates: the column owning the node, the *)
(* node's key, and whether the node still exists (a std::map iterator is   *)
(* invalidated exactly when its own node is erased).                       *)
(*                                                                         *)
(* size_t counts are kept in two's complement: a negative n stands for     *)
(* 2^64 + n, so that --0 is -1 (SIZE_MAX) and ++(-1) is 0.                 *)
(***************************************************************************)
EXTENDS Integers, Sequences, FiniteSets, TLC

\* ---------------------------------------------------------------- bounds
MaxRows == 3

MaxAuxRows == 2

MaxList == 2

\* ------------------------------------------------------------ value domain
Cols == 1..2

Values == {<<>>, <<"a">>, <<"b">>}

\* boost::any holders handed to insert(any) / update(tid, any)
AnyValues ==
  {[kind |-> "empty", val |-> <<>>], [kind |-> "other", val |-> <<>>]}
    \cup {[kind |-> "T", val |-> v] : v \in Values}

NoAny == [kind |-> "empty", val |-> <<>>]

TIDs == 0..MaxRows

RECURSIVE SeqsUpTo(_, _)
SeqsUpTo(S, n) ==
  IF n = 0 THEN {<<>>}
  ELSE LET shorter == SeqsUpTo(S, n - 1)
       IN shorter \cup {Append(s, x) : s \in {t \in shorter : Len(t) = n - 1}, x \in S}

ValueLists == SeqsUpTo(Values, MaxList)

TidLists == SeqsUpTo(TIDs, MaxList)

VARIABLES values, position, created, disk, stored, ub, last, pre

vars == <<values, position, created, disk, stored, ub, last, pre>>

\* ------------------------------------------------------------- std::map
EmptyMap == [k \in {} |-> 0]

MapErase(m, k) == [x \in (DOMAIN m) \ {k} |-> m[x]]

MapPut(m, k, n) == [x \in (DOMAIN m) \cup {k} |-> IF x = k THEN n ELSE m[x]]

Handle(c, k) == [col |-> c, key |-> k, live |-> TRUE]

\* erasing the nodes `keys` of column c's map invalidates every iterator to them
RECURSIVE KillIn(_, _, _)
KillIn(p, c, keys) ==
  IF p = <<>> THEN <<>>
  ELSE <<IF Head(p).col = c /\ Head(p).key \in keys
         THEN [Head(p) EXCEPT !.live = FALSE] ELSE Head(p)>>
       \o KillIn(Tail(p), c, keys)

Kill(pos, c, keys) == <<KillIn(pos[1], c, keys), KillIn(pos[2], c, keys)>>

\* the memory state the operations act on, and an operation's outcome
Mem == [values |-> values, position |-> position]

Done(v, p, r) == [values |-> v, position |-> p, ret |-> r, ub |-> FALSE]

Undefined(v, p, r) == [values |-> v, position |-> p, ret |-> r, ub |-> TRUE]

\* ------------------------------------------------------------ insert(T)
\* a present value's count is left as it is
insertTNoBump(S, c, v) ==
  Done(IF v \notin DOMAIN S.values[c]
       THEN [S.values EXCEPT ![c] = MapPut(@, v, 1)] ELSE S.values,
       [S.position EXCEPT ![c] = Append(@, Handle(c, v))], "true")

insertT(S, c, v) ==
  IF v \notin DOMAIN S.values[c]
  THEN Done([S.values EXCEPT ![c] = MapPut(@, v, 1)],
            [S.position EXCEPT ![c] = Append(@, Handle(c, v))], "true")
  ELSE Done([S.values EXCEPT ![c] = MapPut(@, v, @[v] + 1)],
            [S.position EXCEPT ![c] = Append(@, Handle(c, v))], "true")

\* -------------------------------------------------------- insert(any)
\* the typeid comparison is missing
insertAnyUnchecked(S, c, a) ==
  IF a.kind = "empty" THEN Done(S.values, S.position, "false")
  ELSE insertT(S, c, a.val)

insertAny(S, c, a) ==
  IF a.kind = "empty" THEN Done(S.values, S.position, "false")
  ELSE IF a.kind # "T" THEN Done(S.values, S.position, "false")
  ELSE insertT(S, c, a.val)

\* ------------------------------------------------- insert(first, last)
RECURSIVE insertRange(_, _, _)
insertRange(S, c, vs) ==
  IF vs = <<>> THEN Done(S.values, S.position, "true")
  ELSE LET r == insertT(S, c, Head(vs))
       IN IF r.ret # "true" THEN [r EXCEPT !.ret = "false"]
          ELSE insertRange(r, c, Tail(vs))

\* ------------------------------------ --(ref->second); erase when it is 0
\* Executed by column c on the iterator h (lines 135-141; the same steps are
\* lines 108-111 of update).  Dereferencing an invalidated iterator, and
\* erasing another map's iterator from c's map, are undefined: the build
\* either faults there (cont = FALSE) or carries on (cont = TRUE), a freed
\* node absorbing the write and a foreign node being unlinked from the tree
\* it really is in.
\* the entry is erased although its count has not reached 0
decrementAndEraseAlways(S, c, h, cont) ==
  IF ~h.live
  THEN Undefined(S.values, S.position, IF cont THEN "ok" ELSE "crash")
  ELSE Done([S.values EXCEPT ![h.col] = MapErase(@, h.key)],
            Kill(S.position, h.col, {h.key}), "ok")

\* the entry stays in the map with count 0
decrementAndEraseNever(S, c, h, cont) ==
  IF ~h.live
  THEN Undefined(S.values, S.position, IF cont THEN "ok" ELSE "crash")
  ELSE Done([S.values EXCEPT ![h.col] = MapPut(@, h.key, @[h.key] - 1)], S.position, "ok")

decrementAndErase(S, c, h, cont) ==
  IF ~h.live
  THEN Undefined(S.values, S.position, IF cont THEN "ok" ELSE "crash")
  ELSE LET n == S.values[h.col][h.key] - 1
           dec == [S.values EXCEPT ![h.col] = MapPut(@, h.key, n)]
           gone == [S.values EXCEPT ![h.col] = MapErase(@, h.key)]
       IN IF n # 0 THEN Done(dec, S.position, "ok")
          ELSE IF h.col = c THEN Done(gone, Kill(S.position, h.col, {h.key}), "ok")
          ELSE IF cont THEN Undefined(gone, Kill(S.position, h.col, {h.key}), "ok")
          ELSE Undefined(dec, S.position, "crash")

\* -------------------------------------------------------- update(tid, any)
update(S, c, tid, a, cont) ==
  IF a.kind = "empty" THEN Done(S.values, S.position, "false")
  ELSE IF a.kind # "T" THEN Done(S.values, S.position, "false")
  ELSE IF tid >= Len(S.position[c]) THEN Done(S.values, S.position, "throw")
  ELSE LET value == a.val
           r == decrementAndErase(S, c, S.position[c][tid + 1], cont)
           vals == IF value \notin DOMAIN r.values[c]
                   THEN [r.values EXCEPT ![c] = MapPut(@, value, 1)]
                   ELSE [r.values EXCEPT ![c] = MapPut(@, value, @[value] + 1)]
           pos == [r.position EXCEPT ![c] = [@ EXCEPT ![tid + 1] = Handle(c, value)]]
           t == insertAny([values |-> vals, position |-> pos], c, a)
       IN IF r.ret = "crash" THEN r
          ELSE [t EXCEPT !.ub = r.ub]

\* the memory after each step of an update that passed its checks: after the
\* decrement and erase (109-111), after the lookup and the write of the slot
\* (114-120), after the insert it returns through (122)
updateSteps(S, c, tid, a, cont) ==
  LET value == a.val
      r == decrementAndErase(S, c, S.position[c][tid + 1], cont)
      vals == IF value \notin DOMAIN r.values[c]
              THEN [r.values EXCEPT ![c] = MapPut(@, value, 1)]
              ELSE [r.values EXCEPT ![c] = MapPut(@, value, @[value] + 1)]
      pos == [r.position EXCEPT ![c] = [@ EXCEPT ![tid + 1] = Handle(c, value)]]
      t == insertAny([values |-> vals, position |-> pos], c, a)
  IN <<[values |-> r.values, position |-> r.position],
       [values |-> vals, position |-> pos],
       [values |-> t.values, position |-> t.position]>>

\* ---------------------------------------------------- update(tidList, any)
RECURSIVE updateList(_, _, _, _, _)
updateList(S, c, tids, a, cont) ==
  IF tids = <<>> THEN Done(S.values, S.position, "true")
  ELSE LET r == update(S, c, Head(tids), a, cont)
           rest == updateList(r, c, Tail(tids), a, cont)
       IN IF r.ret # "true" THEN r
          ELSE [rest EXCEPT !.ub = r.ub \/ rest.ub]

\* -------------------------------------------------------------- remove(tid)
\* for (i = tid; i < size - 1; ++i) _position[i] = _position[i+1]; pop_back()
\* the last slot is dropped without shifting
shiftLeftNoShift(p, tid) == SubSeq(p, 1, Len(p) - 1)

shiftLeft(p, tid) == SubSeq(p, 1, tid) \o SubSeq(p, tid + 2, Len(p))

\* the count is not decremented
removeKeepsCount(S, c, tid, cont) ==
  IF tid >= Len(S.position[c]) THEN Done(S.values, S.position, "throw")
  ELSE Done(S.values, [S.position EXCEPT ![c] = shiftLeft(@, tid)], "true")

remove(S, c, tid, cont) ==
  IF tid >= Len(S.position[c]) THEN Done(S.values, S.position, "throw")
  ELSE LET r == decrementAndErase(S, c, S.position[c][tid + 1], cont)
       IN IF r.ret = "crash" THEN r
          ELSE [values |-> r.values,
                position |-> [r.position EXCEPT ![c] = shiftLeft(@, tid)],
                ret |-> "true", ub |-> r.ub]

\* ---------------------------------------------------------- remove(tidList)
RECURSIVE Lowered(_)
Lowered(tids) ==
  IF tids = <<>> THEN <<>>
  ELSE <<IF Head(tids) > 0 THEN Head(tids) - 1 ELSE 0>> \o Lowered(Tail(tids))

\* the rest of the list is renumbered after each removal
RECURSIVE removeListCompensating(_, _, _, _)
removeListCompensating(S, c, tids, cont) ==
  IF tids = <<>> THEN Done(S.values, S.position, "true")
  ELSE LET r == remove(S, c, Head(tids), cont)
       IN IF r.ret # "true" THEN r
          ELSE removeListCompensating(r, c, Lowered(Tail(tids)), cont)

RECURSIVE removeList(_, _, _, _)
removeList(S, c, tids, cont) ==
  IF tids = <<>> THEN Done(S.values, S.position, "true")
  ELSE LET r == remove(S, c, Head(tids), cont)
           rest == removeList(r, c, Tail(tids), cont)
       IN IF r.ret # "true" THEN r
          ELSE [rest EXCEPT !.ub = r.ub \/ rest.ub]

\* ------------------------------------------------------------ clearContent
\* only _position.clear()
clearContentKeepsValues(S, c) ==
  Done(S.values, [S.position EXCEPT ![c] = <<>>], "true")

clearContent(S, c) ==
  Done([S.values EXCEPT ![c] = EmptyMap],
       [Kill(S.position, c, DOMAIN S.values[c]) EXCEPT ![c] = <<>>], "true")

\* ---------------------------------------------------------------- get(tid)
\* reads _position.front() whatever tid is
getFront(S, c, tid) ==
  IF tid >= Len(S.position[c]) THEN [ret |-> "throw", out |-> <<>>, ub |-> FALSE]
  ELSE LET entry == S.position[c][1]
       IN IF ~entry.live THEN [ret |-> "crash", out |-> <<>>, ub |-> TRUE]
          ELSE [ret |-> "value", out |-> entry.key, ub |-> FALSE]

get(S, c, tid) ==
  IF tid >= Len(S.position[c]) THEN [ret |-> "throw", out |-> <<>>, ub |-> FALSE]
  ELSE LET entry == S.position[c][tid + 1]
       IN IF ~entry.live THEN [ret |-> "crash", out |-> <<>>, ub |-> TRUE]
          ELSE [ret |-> "value", out |-> entry.key, ub |-> FALSE]

\* --------------------------------------------------------------------- size
size(S, c) == Len(S.position[c])

\* ------------------------------------------------------------------ copy
\* The implicit copy constructor copies the map (new nodes, same keys and
\* counts) and copies the vector of iterators element by element.
copy(S, from, to) ==
  Done([S.values EXCEPT ![to] = S.values[from]],
       [S.position EXCEPT ![to] = S.position[from]], "true")

\* ------------------------------------------------- text of the sidecar files
Alphabet == <<"\n", " ", "0", "1", "2", "3", "4", "5", "6", "7", "8", "9", "?", "a", "b">>

Code(ch) == CHOOSE i \in 1..Len(Alphabet) : Alphabet[i] = ch

IsSpace(ch) == ch \in {"\n", " "}

IsDigit(ch) == ch \in {"0", "1", "2", "3", "4", "5", "6", "7", "8", "9"}

DigitValue(ch) == Code(ch) - 3

\* std::string operator<
RECURSIVE Less(_, _)
Less(u, v) ==
  IF v = <<>> THEN FALSE
  ELSE IF u = <<>> THEN TRUE
  ELSE IF Head(u) # Head(v) THEN Code(Head(u)) < Code(Head(v))
  ELSE Less(Tail(u), Tail(v))

\* the keys from the greatest to the least
RECURSIVE InOrderDescending(_)
InOrderDescending(keys) ==
  IF keys = {} THEN <<>>
  ELSE LET first == CHOOSE k \in keys : \A o \in keys \ {k} : Less(o, k)
       IN <<first>> \o InOrderDescending(keys \ {first})

\* the keys of a map in iteration order, begin() to end()
RECURSIVE InOrder(_)
InOrder(keys) ==
  IF keys = {} THEN <<>>
  ELSE LET first == CHOOSE k \in keys : \A o \in keys \ {k} : Less(k, o)
       IN <<first>> \o InOrder(keys \ {first})

\* operator<< of a size_t
RECURSIVE Decimal(_)
Decimal(n) ==
  IF n < 0 THEN <<"1", "8", "4", "4", "6", "7", "4", "4", "0", "7", "3", "7", "0", "9", "5">>
                \o Decimal(51616 + n)
  ELSE IF n < 10 THEN <<Alphabet[n + 3]>>
  ELSE Decimal(n \div 10) \o <<Alphabet[(n % 10) + 3]>>

\* ----------------------------------------------------------------- store
RECURSIVE valuesLines(_, _)
valuesLines(m, keys) ==
  IF keys = <<>> THEN <<>>
  ELSE Decimal(m[Head(keys)]) \o <<" ">> \o Head(keys) \o <<"\n">>
       \o valuesLines(m, Tail(keys))

\* ordinals are counted from 1
valueMapAtFromOne(keys, k) ==
  IF \E i \in 1..Len(keys) : keys[i] = k
  THEN CHOOSE i \in 1..Len(keys) : keys[i] = k
  ELSE 0

\* value_map: key -> ordinal of its line; operator[] gives 0 for a key not in it
valueMapAt(keys, k) ==
  IF \E i \in 1..Len(keys) : keys[i] = k
  THEN (CHOOSE i \in 1..Len(keys) : keys[i] = k) - 1
  ELSE 0

RECURSIVE positionLines(_, _)
positionLines(p, keys) ==
  IF p = <<>> THEN <<>>
  ELSE Decimal(valueMapAt(keys, Head(p).key)) \o <<"\n">> \o positionLines(Tail(p), keys)

\* An ofstream that failed to open swallows every write; store returns true
\* either way.  ref->first through an invalidated iterator is undefined.
store(S, c, files, writable, cont) ==
  LET keys == InOrder(DOMAIN S.values[c])
      dangling == \E i \in 1..Len(S.position[c]) : ~S.position[c][i].live
      vfile == [exists |-> TRUE, data |-> valuesLines(S.values[c], keys)]
      pfile == [exists |-> TRUE, data |-> positionLines(S.position[c], keys)]
  IN IF dangling /\ ~cont
     THEN [disk |-> IF writable THEN [values |-> vfile, position |-> files.position] ELSE files,
           ret |-> "crash", ub |-> TRUE]
     ELSE [disk |-> IF writable THEN [values |-> vfile, position |-> pfile] ELSE files,
           ret |-> "true", ub |-> dangling]

\* ------------------------------------------------------------------ load
RECURSIVE SkipSpace(_, _)
SkipSpace(d, i) ==
  IF i <= Len(d) /\ IsSpace(d[i]) THEN SkipSpace(d, i + 1) ELSE i

RECURSIVE DigitsEnd(_, _)
DigitsEnd(d, i) ==
  IF i <= Len(d) /\ IsDigit(d[i]) THEN DigitsEnd(d, i + 1) ELSE i

RECURSIVE WordEnd(_, _)
WordEnd(d, i) ==
  IF i <= Len(d) /\ ~IsSpace(d[i]) THEN WordEnd(d, i + 1) ELSE i

RECURSIVE Number(_)
Number(digits) ==
  IF digits = <<>> THEN 0
  ELSE 10 * Number(SubSeq(digits, 1, Len(digits) - 1)) + DigitValue(digits[Len(digits)])

\* stream >> size_t: skip white space, then a run of digits
ReadNumber(d, i) ==
  LET b == SkipSpace(d, i)
      e == DigitsEnd(d, b)
  IN [ok |-> e > b, val |-> Number(SubSeq(d, b, e - 1)), next |-> e]

\* stream >> std::string: skip white space, then everything up to white space
ReadString(d, i) ==
  LET b == SkipSpace(d, i)
      e == WordEnd(d, b)
  IN [ok |-> e > b, val |-> SubSeq(d, b, e - 1), next |-> e]

\* while (values_instream >> occuring >> value) refs.push_back(emplace(...).first)
\* emplace leaves an entry that is already there as it is.
RECURSIVE loadValues(_, _, _, _, _)
loadValues(m, c, d, i, refs) ==
  LET occuring == ReadNumber(d, i)
      value == ReadString(d, occuring.next)
      m2 == IF value.val \in DOMAIN m THEN m ELSE MapPut(m, value.val, occuring.val)
  IN IF ~occuring.ok \/ ~value.ok THEN [map |-> m, refs |-> refs]
     ELSE loadValues(m2, c, d, value.next, Append(refs, Handle(c, value.val)))

\* what refs[pointer] yields past the end of refs: no iterator of any map
WildHandle == [col |-> 0, key |-> <<"?">>, live |-> FALSE]

\* while (pos_instream >> pointer) _position.push_back(refs[pointer])
RECURSIVE loadPositions(_, _, _, _, _)
loadPositions(p, d, i, refs, cont) ==
  LET pointer == ReadNumber(d, i)
  IN IF ~pointer.ok THEN [position |-> p, ret |-> "true", ub |-> FALSE]
     ELSE IF pointer.val < Len(refs)
     THEN loadPositions(Append(p, refs[pointer.val + 1]), d, pointer.next, refs, cont)
     ELSE IF ~cont THEN [position |-> p, ret |-> "crash", ub |-> TRUE]
     ELSE [loadPositions(Append(p, WildHandle), d, pointer.next, refs, cont)
             EXCEPT !.ub = TRUE]

\* An ifstream that failed to open yields nothing; load returns true either way.
load(S, c, files, cont) ==
  LET vdata == IF files.values.exists THEN files.values.data ELSE <<>>
      pdata == IF files.position.exists THEN files.position.data ELSE <<>>
      v == loadValues(S.values[c], c, vdata, 1, <<>>)
      p == loadPositions(S.position[c], pdata, 1, v.refs, cont)
  IN [values |-> [S.values EXCEPT ![c] = v.map],
      position |-> [S.position EXCEPT ![c] = p.position],
      ret |-> p.ret, ub |-> p.ub]

\* ================================================================ actions
\* What the last call was, with its arguments and what it gave back.
Call(op, c) ==
  [op |-> op, col |-> c, tid |-> 0, arg |-> NoAny, tids |-> <<>>, vals |-> <<>>,
   ret |-> "true", out |-> <<>>]

Idle == Call("idle", 1)

NoMem == [values |-> <<EmptyMap, EmptyMap>>, position |-> <<<<>>, <<>>>>]

NoFile == [exists |-> FALSE, data |-> <<>>]

\* a lone column holds up to MaxRows rows; once a second column or the files
\* exist, each column holds up to MaxAuxRows
Alone == ~created[2] /\ ~disk.values.exists /\ ~disk.position.exists

RowCap == IF Alone THEN MaxRows ELSE MaxAuxRows

Bounded(r) == \A c \in Cols : Len(r.position[c]) <= RowCap

Fits == \A c \in Cols : Len(position[c]) <= MaxAuxRows

Columns == {c \in Cols : created[c]}

\* the caller is between two calls
Ready == ~ub /\ last.op = "idle"

\* only a column holding an invalidated or foreign iterator can run into
\* undefined behaviour, and only then is there an outcome to choose
Conts(c) ==
  IF \E i \in 1..Len(position[c]) : ~position[c][i].live \/ position[c][i].col # c
  THEN BOOLEAN ELSE {FALSE}

\* the call returns (or faults) and leaves the memory r behind
Effect(r, call) ==
  /\ Ready
  /\ Bounded(r)
  /\ values' = r.values
  /\ position' = r.position
  /\ ub' = r.ub
  /\ last' = [call EXCEPT !.ret = r.ret]
  /\ pre' = Mem

Commit(r, call) == Effect(r, call) /\ UNCHANGED <<created, disk, stored>>

Init ==
  /\ values = <<EmptyMap, EmptyMap>>
  /\ position = <<<<>>, <<>>>>
  /\ created = <<TRUE, FALSE>>
  /\ disk = [values |-> NoFile, position |-> NoFile]
  /\ stored = [valid |-> FALSE, values |-> EmptyMap, position |-> <<>>]
  /\ ub = FALSE
  /\ last = Idle
  /\ pre = NoMem

\* The caller has looked at the result and goes on to its next call.  A
\* column it constructed only to load into (slot 2 while ~created[2]) goes out
\* of scope here.
Return ==
  /\ ~ub
  /\ last.op # "idle"
  /\ last' = Idle
  /\ pre' = NoMem
  /\ values' = IF created[2] THEN values ELSE <<values[1], EmptyMap>>
  /\ position' = IF created[2] THEN position ELSE <<position[1], <<>>>>
  /\ UNCHANGED <<created, disk, stored, ub>>

Insert ==
  \E c \in Columns, v \in Values :
    Commit(insertT(Mem, c, v), [Call("insert", c) EXCEPT !.vals = <<v>>])

InsertAny ==
  \E c \in Columns, a \in AnyValues :
    Commit(insertAny(Mem, c, a), [Call("insertAny", c) EXCEPT !.arg = a])

InsertRange ==
  \E c \in Columns, vs \in ValueLists :
    Commit(insertRange(Mem, c, vs), [Call("insertRange", c) EXCEPT !.vals = vs])

Update ==
  \E c \in Columns, tid \in TIDs, a \in AnyValues :
    \E cont \in Conts(c) :
      Commit(update(Mem, c, tid, a, cont),
             [Call("update", c) EXCEPT !.tid = tid, !.arg = a])

UpdateList ==
  \E c \in Columns, tids \in TidLists, a \in AnyValues :
    \E cont \in Conts(c) :
      Commit(updateList(Mem, c, tids, a, cont),
             [Call("updateList", c) EXCEPT !.tids = tids, !.arg = a])

Remove ==
  \E c \in Columns, tid \in TIDs :
    \E cont \in Conts(c) :
      Commit(remove(Mem, c, tid, cont), [Call("remove", c) EXCEPT !.tid = tid])

RemoveList ==
  \E c \in Columns, tids \in TidLists :
    \E cont \in Conts(c) :
      Commit(removeList(Mem, c, tids, cont), [Call("removeList", c) EXCEPT !.tids = tids])

Clear ==
  \E c \in Columns : Commit(clearContent(Mem, c), Call("clear", c))

\* reading through an invalidated iterator is undefined: a fault, or any value
Get ==
  \E c \in Columns, tid \in TIDs :
    \E cont \in Conts(c), junk \in (IF Conts(c) = {FALSE} THEN {<<>>} ELSE Values) :
      LET g == get(Mem, c, tid)
          seen == IF g.ub /\ cont THEN [g EXCEPT !.ret = "value", !.out = junk] ELSE g
      IN Commit([values |-> values, position |-> position, ret |-> seen.ret, ub |-> seen.ub],
                [Call("get", c) EXCEPT !.tid = tid, !.out = seen.out])

Size ==
  \E c \in Columns :
    Commit(Done(values, position, "value"),
           [Call("size", c) EXCEPT !.out = <<size(Mem, c)>>])

\* D = C.copy(): column 2 comes into being as the copy of column 1
Copy ==
  /\ ~created[2]
  /\ Fits
  /\ created' = [created EXCEPT ![2] = TRUE]
  /\ Effect(copy(Mem, 1, 2), Call("copy", 2))
  /\ UNCHANGED <<disk, stored>>

\* both sidecar files lie in one directory, which can be written to or not
Store ==
  \E c \in Columns, writable \in BOOLEAN :
    \E cont \in Conts(c) :
      LET r == store(Mem, c, disk, writable, cont)
      IN /\ Ready
         /\ Fits
         /\ disk' = r.disk
         /\ stored' = IF writable /\ r.ret = "true"
                      THEN [valid |-> TRUE, values |-> values[c], position |-> position[c]]
                      ELSE IF writable THEN [stored EXCEPT !.valid = FALSE]
                      ELSE stored
         /\ ub' = r.ub
         /\ last' = [Call("store", c) EXCEPT !.ret = r.ret,
                       !.arg = [kind |-> IF writable THEN "writable" ELSE "unwritable", val |-> <<>>]]
         /\ pre' = Mem
         /\ UNCHANGED <<values, position, created>>

\* DictionaryCompressedColumn<T> fresh(name, type); fresh.load(path);
\* the fresh column is slot 2, empty until the load
LoadFresh ==
  \E cont \in BOOLEAN :
    /\ ~created[2]
    /\ Commit(load(Mem, 2, disk, cont), Call("load", 2))

\* ------------------------------- files that something other than store left
RECURSIVE Concat(_)
Concat(lines) == IF lines = <<>> THEN <<>> ELSE Head(lines) \o Concat(Tail(lines))

\* a line of the _values file as load reads it: "<occuring> <value>"
ValueFileLines ==
  {Decimal(n) \o <<" ">> \o v \o <<"\n">> : n \in 0..MaxAuxRows, v \in Values \ {<<>>}}

\* a line of the _position file as load reads it: "<pointer>"
PositionFileLines == {Decimal(k) \o <<"\n">> : k \in 0..MaxAuxRows}

ValueFiles == {Concat(ls) : ls \in SeqsUpTo(ValueFileLines, MaxAuxRows)}

PositionFiles == {Concat(ls) : ls \in SeqsUpTo(PositionFileLines, MaxAuxRows)}

\* the two files load will open are there with some contents, written by
\* anything at all
PutFiles ==
  \E v \in ValueFiles, p \in PositionFiles :
    /\ Ready
    /\ ~disk.values.exists /\ ~disk.position.exists
    /\ disk' = [values |-> [exists |-> TRUE, data |-> v],
                position |-> [exists |-> TRUE, data |-> p]]
    /\ UNCHANGED <<values, position, created, stored, ub, last, pre>>

\* C.load(path) on a column that is in use
Load ==
  \E c \in Columns :
    \E cont \in BOOLEAN :
      /\ disk.values.exists
      /\ Commit(load(Mem, c, disk, cont), Call("load", c))

Next ==
  \/ Insert
  \/ InsertAny
  \/ InsertRange
  \/ Update
  \/ UpdateList
  \/ Remove
  \/ RemoveList
  \/ Clear
  \/ Get
  \/ Size
  \/ Return

Spec == Init /\ [][Next]_vars

NextCopy ==
  \/ Copy
  \/ Insert
  \/ InsertAny
  \/ Update
  \/ Remove
  \/ Clear
  \/ Get
  \/ Size
  \/ Return

SpecCopy == Init /\ [][NextCopy]_vars

NextIO ==
  \/ Store
  \/ LoadFresh
  \/ Insert
  \/ Remove
  \/ Clear
  \/ Return

SpecIO == Init /\ [][NextIO]_vars

NextFiles ==
  \/ PutFiles
  \/ LoadFresh
  \/ Return

SpecFiles == Init /\ [][NextFiles]_vars

NextReload ==
  \/ Store
  \/ Load
  \/ Insert
  \/ Remove
  \/ Clear
  \/ Return

SpecReload == Init /\ [][NextReload]_vars

\* ================================================================= claims
Slots(S, c, k) == {i \in 1..Len(S.position[c]) : S.position[c][i] = Handle(c, k)}

Count(m, k) == IF k \in DOMAIN m THEN m[k] ELSE 0

Got(v) == [ret |-> "value", out |-> v, ub |-> FALSE]

InRange(c) == last.tid < Len(pre.position[c])

\* C1: reference-count consistency.  Starting from the empty column, after any
\* sequence of insert, insert(any), bulk insert, update, update(list), remove,
\* remove(list) and clear calls, returning or throwing, every dictionary entry's
\* count is the number of position slots whose handle identifies that entry.
RefCountConsistent ==
  \A c \in Columns : \A k \in DOMAIN values[c] :
    values[c][k] = Cardinality(Slots(Mem, c, k))

RefCountWitness ==
  /\ last.op = "remove"
  /\ last.ret = "true"
  /\ \E k \in DOMAIN values[1] : values[1][k] = 2
  /\ Cardinality(DOMAIN pre.values[1]) = 2

\* C2: update(tid, any) with a well-typed value v and tid in [0, N) rewrites one
\* row in place: it succeeds, size() is still N, get(tid) is v, every other row
\* is unchanged, the old value's count has dropped by 1 (evicted at 0) and v's
\* count has risen by 1 (net 0 when the old value is v).
UpdateInPlace ==
  (last.op = "update" /\ last.arg.kind = "T" /\ InRange(last.col)) =>
    LET c == last.col
        v == last.arg.val
        old == pre.position[c][last.tid + 1].key
        N == Len(pre.position[c])
    IN /\ last.ret = "true"
       /\ size(Mem, c) = N
       /\ get(Mem, c, last.tid) = Got(v)
       /\ \A i \in 0..(N - 1) : i # last.tid => get(Mem, c, i) = get(pre, c, i)
       /\ \A k \in DOMAIN values[c] \cup DOMAIN pre.values[c] :
            Count(values[c], k) = Count(pre.values[c], k)
                                  - (IF k = old THEN 1 ELSE 0) + (IF k = v THEN 1 ELSE 0)

\* C4: remove/size law.  remove(tid) with tid in [0, N) returns success, size()
\* becomes N-1, rows below tid are unchanged, every row i in [tid, N-1) is the
\* old row i+1, the removed value's count drops by exactly 1 and its entry is
\* evicted iff that count reaches 0; no other count changes.
RemoveLaw ==
  (last.op = "remove" /\ InRange(last.col)) =>
    LET c == last.col
        old == pre.position[c][last.tid + 1].key
        N == Len(pre.position[c])
    IN /\ last.ret = "true"
       /\ size(Mem, c) = N - 1
       /\ \A i \in 0..(N - 2) :
            get(Mem, c, i) = get(pre, c, IF i < last.tid THEN i ELSE i + 1)
       /\ \A k \in DOMAIN values[c] \cup DOMAIN pre.values[c] :
            Count(values[c], k) = Count(pre.values[c], k) - (IF k = old THEN 1 ELSE 0)
       /\ (old \notin DOMAIN values[c]) <=> (pre.values[c][old] = 1)

RemoveLawWitness ==
  /\ last.op = "remove"
  /\ last.tid = 1
  /\ Len(pre.position[1]) = 3
  /\ pre.position[1][1].key # pre.position[1][3].key
  /\ pre.position[1][2].key \notin DOMAIN values[1]

\* C5: out-of-range handling.  remove(tid) and update(tid, well-typed any) with
\* tid outside [0, N) hand the caller a failure status, let no exception out,
\* and leave dictionary and position vector as they were.
OutOfRangeStatus ==
  ( /\ last.op \in {"remove", "update"}
    /\ last.op = "update" => last.arg.kind = "T"
    /\ ~InRange(last.col) ) =>
      (last.ret = "false" /\ Mem = pre)

\* C6: type-check failure leaves the column unchanged.  insert(any) and
\* update(tid, any) return failure when the holder is empty or holds another
\* type than T, for every tid, and size, rows and counts are as before.
TypeCheckFailure ==
  (last.op \in {"insertAny", "update"} /\ last.arg.kind \in {"empty", "other"}) =>
    (last.ret = "false" /\ Mem = pre)

TypeCheckWitness ==
  /\ last.op = "update"
  /\ last.arg.kind = "other"
  /\ InRange(1)
  /\ Len(position[1]) = 2

\* C9: insert/size law.  insert(value) always succeeds; with N rows before, it
\* makes size() N+1 and get(N) the value, leaves every row below N unchanged,
\* raises the value's count by 1 (creating the entry with count 1) and changes
\* no other count; k inserts in a row make the size the prior size + k.
InsertLaw ==
  /\ last.op = "insert" =>
       LET c == last.col
           v == last.vals[1]
           N == Len(pre.position[c])
       IN /\ last.ret = "true"
          /\ size(Mem, c) = N + 1
          /\ get(Mem, c, N) = Got(v)
          /\ \A i \in 0..(N - 1) : get(Mem, c, i) = get(pre, c, i)
          /\ \A k \in DOMAIN values[c] \cup DOMAIN pre.values[c] :
               Count(values[c], k) = Count(pre.values[c], k) + (IF k = v THEN 1 ELSE 0)
  /\ last.op = "insertRange" =>
       /\ last.ret = "true"
       /\ size(Mem, last.col) = Len(pre.position[last.col]) + Len(last.vals)
       /\ \A i \in 1..Len(last.vals) :
            get(Mem, last.col, Len(pre.position[last.col]) + i - 1) = Got(last.vals[i])

InsertLawWitness ==
  /\ last.op = "insertRange"
  /\ Len(last.vals) = 2
  /\ last.vals[1] = last.vals[2]
  /\ Len(pre.position[1]) = 1
  /\ pre.position[1][1].key = last.vals[1]

\* C10: live handles, dense TIDs.  After any sequence of insert, update, remove
\* and clear, every handle in the position vector points to an entry that is
\* in the column's own dictionary now, so get(tid) returns a value for every
\* tid in [0, size()).
LiveHandles ==
  \A c \in Columns : \A tid \in 0..(size(Mem, c) - 1) :
    LET h == position[c][tid + 1]
    IN /\ h.live
       /\ h.col = c
       /\ h.key \in DOMAIN values[c]
       /\ get(Mem, c, tid) = Got(h.key)

LiveHandlesWitness ==
  /\ last.op = "update"
  /\ last.ret = "true"
  /\ pre.position[1][last.tid + 1].key \notin DOMAIN values[1]
  /\ Len(position[1]) = 3

Mutators == {"insert", "insertAny", "update", "remove", "clear"}

\* C3: copy independence.  After D = C.copy(), every position handle of D
\* identifies an entry of D's own dictionary, never one of C's; a later insert,
\* update, remove or clear on one of the two columns leaves the other's rows,
\* size and counts unchanged, and both keep their counts equal to their slots.
CopyIndependence ==
  created[2] =>
    /\ \A i \in 1..Len(position[2]) :
         position[2][i].col = 2 /\ position[2][i].key \in DOMAIN values[2]
    /\ last.op \in Mutators =>
         LET d == 3 - last.col
         IN /\ values[d] = pre.values[d]
            /\ size(Mem, d) = size(pre, d)
            /\ \A tid \in 0..(size(pre, d) - 1) : get(Mem, d, tid) = get(pre, d, tid)
    /\ RefCountConsistent

NoWhitespace(v) == \A i \in 1..Len(v) : ~IsSpace(v[i])

Serializable(v) == v # <<>> /\ NoWhitespace(v)

RoundTripOf(keysOk) ==
  (last.op = "load" /\ stored.valid /\ keysOk) =>
    /\ last.ret = "true"
    /\ size(Mem, 2) = Len(stored.position)
    /\ \A tid \in 0..(Len(stored.position) - 1) :
         get(Mem, 2, tid) = Got(stored.position[tid + 1].key)
    /\ values[2] = stored.values

\* C7 as stated: round trip.  For a column C reachable by insert, update,
\* remove and clear whose values hold no white space, C.store(p) and then
\* load(p) on a fresh column C' give C' the size, the rows and the
\* (value, count) pairs of C.
RoundTrip == RoundTripOf(\A k \in DOMAIN stored.values : NoWhitespace(k))

\* C7 as amended: the same for a column whose values are non-empty and hold no
\* white space.
RoundTripSerializable == RoundTripOf(\A k \in DOMAIN stored.values : Serializable(k))

RoundTripWitness ==
  /\ last.op = "load"
  /\ stored.valid
  /\ Len(stored.position) = 2
  /\ stored.position[1].key = <<"b">>
  /\ stored.position[2].key = <<"a">>
  /\ Len(position[2]) = 2

\* C8: I/O failure is reported.  When the sidecar files cannot be opened for
\* writing, store(path) returns failure; when they cannot be opened for
\* reading, load(path) returns failure.
IoFailureReported ==
  /\ (last.op = "store" /\ last.arg.kind = "unwritable") => last.ret = "false"
  /\ (last.op = "load" /\ (~disk.values.exists \/ ~disk.position.exists)) =>
       last.ret = "false"


\* C11: no empty entries.  After any sequence of insert, update, remove and
\* clear, between two calls no dictionary entry has count 0: an entry exists
\* iff its count is at least 1, and the dictionary's keys are exactly the
\* values held by some row.
NoEmptyEntries ==
  \A c \in Columns :
    /\ \A k \in DOMAIN values[c] : values[c][k] >= 1
    /\ DOMAIN values[c] = {position[c][i].key : i \in 1..Len(position[c])}

NoEmptyEntriesWitness ==
  /\ last.op = "remove"
  /\ last.ret = "true"
  /\ pre.values[1][pre.position[1][last.tid + 1].key] = 1
  /\ Cardinality(DOMAIN values[1]) = 2


\* C12: load establishes the invariants.  Whenever load(path) on an empty
\* column returns success, whatever the two sidecar files hold, the column's
\* counts equal the numbers of slots citing the entries, no entry has count 0,
\* and every slot refers to an entry load put into the dictionary (no ordinal
\* outside [0, number of _values lines) is resolved to a handle).
LoadEstablishesInvariants ==
  (last.op = "load" /\ last.ret = "true" /\ pre.position[last.col] = <<>>
     /\ pre.values[last.col] = EmptyMap)
  => LET c == last.col
     IN /\ ~ub
        /\ \A k \in DOMAIN values[c] :
             values[c][k] >= 1 /\ values[c][k] = Cardinality(Slots(Mem, c, k))
        /\ \A i \in 1..Len(position[c]) :
             /\ position[c][i].col = c
             /\ position[c][i].live
             /\ position[c][i].key \in DOMAIN values[c]


\* the rows of p, in order, without those whose place (counted from 1) is in drop
RECURSIVE KeepRows(_, _)
KeepRows(p, drop) ==
  IF p = <<>> THEN <<>>
  ELSE KeepRows(SubSeq(p, 1, Len(p) - 1), drop)
       \o (IF Len(p) \in drop THEN <<>> ELSE <<p[Len(p)]>>)

\* C13: remove(tidList) is remove(tid) applied to each element in list order,
\* each against the column as the removals before it left it: no
\* compensation, no rollback.  The column ends as after remove(list[0]),
\* remove(list[1]), ... stopped at the first failing element, whose failure is
\* the call's result while the removals before it stay; for an ascending list
\* the i-th element (from 0) removes the row whose TID was list[i] + i at the
\* start.
RemoveListSequential ==
  last.op = "removeList"
  => LET c == last.col
         tids == last.tids
         old == pre.position[c]
         Applies(j) == \A i \in 1..j : tids[i] < Len(old) - (i - 1)
         j == CHOOSE n \in 0..Len(tids) :
                Applies(n) /\ (n < Len(tids) => ~Applies(n + 1))
         chain[i \in 0..Len(tids)] ==
           IF i = 0 THEN Done(pre.values, pre.position, "true")
           ELSE remove(chain[i - 1], c, tids[i], FALSE)
         ascending == \A i \in 1..(j - 1) : tids[i] <= tids[i + 1]
     IN /\ last.ret = (IF j = Len(tids) THEN "true" ELSE "throw")
        /\ Len(position[c]) = Len(old) - j
        /\ values = chain[j].values
        /\ position = chain[j].position
        /\ ascending => position[c] = KeepRows(old, {tids[i] + i : i \in 1..j})

RemoveListWitness ==
  /\ last.op = "removeList"
  /\ last.tids = <<0, 1>>
  /\ last.ret = "true"
  /\ Len(pre.position[1]) = 3
  /\ Cardinality(DOMAIN pre.values[1]) = 3
  /\ position[1] = <<pre.position[1][2]>>


UpdateOrdering ==
  (/\ last.op = "update"
   /\ last.arg.kind = "T"
   /\ InRange(last.col)
   /\ pre.position[last.col][last.tid + 1] = Handle(last.col, last.arg.val)
   /\ pre.values[last.col][last.arg.val] = 1)
  => LET c == last.col
         v == last.arg.val
         steps == updateSteps(pre, c, last.tid, last.arg, FALSE)
     IN /\ Mem = steps[3]
        /\ Count(steps[1].values[c], v) = 0
        /\ \A i \in 1..3 : Count(steps[i].values[c], v) < 2
        /\ Count(values[c], v) = 1


\* the lines of a text, each up to and without its line feed
RECURSIVE Lines(_, _)
Lines(d, from) ==
  IF \A i \in from..Len(d) : d[i] # "\n" THEN <<>>
  ELSE LET e == CHOOSE i \in from..Len(d) :
                  d[i] = "\n" /\ \A j \in from..(i - 1) : d[j] # "\n"
       IN <<SubSeq(d, from, e - 1)>> \o Lines(d, e + 1)

\* what follows the first blank of a line
AfterBlank(line) ==
  LET b == CHOOSE i \in 1..Len(line) : line[i] = " " /\ \A j \in 1..(i - 1) : line[j] # " "
  IN SubSeq(line, b + 1, Len(line))

\* C16: store writes a well-formed pair of files and changes nothing.  The
\* _values file holds one line "<count> <value>" per dictionary entry, in
\* ascending key order, so that the lines have the dense ordinals 0, 1, 2, ...;
\* the _position file holds exactly size() lines, and line i is the ordinal k
\* in [0, |Dictionary|) of the _values line that holds get(i).  The dictionary
\* and the position vector are as before the call.
StoreWellFormed ==
  (last.op = "store" /\ last.arg.kind = "writable" /\ last.ret = "true")
  => LET c == last.col
         vl == Lines(disk.values.data, 1)
         pl == Lines(disk.position.data, 1)
     IN /\ Mem = pre
        /\ disk.values.exists /\ disk.position.exists
        /\ Len(vl) = Cardinality(DOMAIN values[c])
        /\ \A j \in 1..Len(vl) :
             \E k \in DOMAIN values[c] : vl[j] = Decimal(values[c][k]) \o <<" ">> \o k
        /\ \A j \in 1..(Len(vl) - 1) : Less(AfterBlank(vl[j]), AfterBlank(vl[j + 1]))
        /\ Len(pl) = size(Mem, c)
        /\ \A i \in 1..Len(pl) :
             \E k \in 0..(Len(vl) - 1) :
               /\ pl[i] = Decimal(k)
               /\ get(Mem, c, i - 1) = Got(AfterBlank(vl[k + 1]))

StoreWitness ==
  /\ last.op = "store"
  /\ last.arg.kind = "writable"
  /\ last.ret = "true"
  /\ Len(position[1]) = 2
  /\ Less(position[1][2].key, position[1][1].key)
  /\ Lines(disk.position.data, 1) = <<<<"1">>, <<"0">>>>


\* C17: get(tid) and size() are read-only: for every tid, in range or not,
\* the dictionary, the position vector and so size() are after the call what
\* they were before it; for tid in [0, N) get returns the value of the entry
\* position[tid] refers to, and size returns N.
ReadOnly ==
  /\ last.op = "get"
     => /\ Mem = pre
        /\ InRange(last.col)
           => /\ last.ret = "value"
              /\ last.out = pre.position[last.col][last.tid + 1].key
              /\ pre.values[last.col][last.out] >= 1
  /\ last.op = "size"
     => /\ Mem = pre
        /\ last.out = <<Len(pre.position[last.col])>>

ReadOnlyWitness ==
  /\ last.op = "get"
  /\ last.tid = 2
  /\ Len(position[1]) = 3
  /\ Cardinality(DOMAIN values[1]) = 3
  /\ last.out = position[1][3].key


\* C18: load(path) on a column that already holds rows keeps the counts
\* right.  After loading files that store produced into a non-empty column,
\* in particular one whose dictionary already holds a value that is also in
\* the _values file, every entry's count equals the number of position slots
\* citing it.
ReloadKeepsCounts ==
  (/\ last.op = "load"
   /\ last.ret = "true"
   /\ stored.valid
   /\ pre.position[last.col] # <<>>)
  => \A k \in DOMAIN values[last.col] :
       values[last.col][k] = Cardinality(Slots(Mem, last.col, k))

====
